---- MODULE Spec2Model ----
(***************************************************************************)
(* A model of apply-patches.py, the patch engine that edits the webview    *)
(* bundle (index.js) and stylesheet (index.css) of an editor extension.    *)
(*                                                                         *)
(* Text is modelled as a sequence of lexical fragments.  A fragment is a   *)
(* record [k, a, b]: k names a fixed piece of text, a and b carry the      *)
(* build-generated identifiers that occur in it.  The fragments are cut    *)
(* so that every substring test, literal replacement and regular           *)
(* expression of the program starts and ends on a fragment boundary; the   *)
(* text each fragment stands for is given where it is introduced.          *)
(***************************************************************************)
EXTENDS Integers, Sequences, FiniteSets, TLC

(***************************************************************************)
(* Fragments                                                               *)
(***************************************************************************)
Tok(k) == [k |-> k, a |-> "", b |-> ""]
TokA(k, a) == [k |-> k, a |-> a, b |-> ""]
TokAB(k, a, b) == [k |-> k, a |-> a, b |-> b]

\* "\n"
NL == Tok("NL")
\* "    " (four blanks) and " " (one blank)
IND4 == Tok("IND4")
SP == Tok("SP")
\* "}" , ")" , "," , ";"
RB == Tok("RB")
RP == Tok("RP")
COMMA == Tok("COMMA")
SEMI == Tok("SEMI")
\* a block of PadNewlines comment lines (more than 5000 characters, no code)
PAD == Tok("PAD")
\* more than 5000 characters of unrelated one-line code with no "function"
GAP == Tok("GAP")
\* a short piece of unrelated code on one line
CODE == Tok("CODE")

\* the prettified threshold of is_prettified
LineThreshold == 5000

\* the number of newline characters inside the PAD block: with one more line
\* the text crosses the threshold
PadNewlines == LineThreshold - 1

(***************************************************************************)
(* Generic text operations (Python str / list / re primitives)             *)
(***************************************************************************)
Min(S) == CHOOSE x \in S : \A y \in S : x <= y
Max(S) == CHOOSE x \in S : \A y \in S : x >= y

\* s[i:i+len(p)] == p
IsAt(s, i, p) ==
    /\ i >= 1
    /\ i + Len(p) - 1 <= Len(s)
    /\ \A j \in 1..Len(p) : s[i + j - 1] = p[j]

\* str.find, 1-based; 0 when absent
Find(s, p) ==
    LET I == {i \in 1..(Len(s) - Len(p) + 1) : IsAt(s, i, p)}
    IN IF I = {} THEN 0 ELSE Min(I)

\* "p in s"
In(p, s) == Find(s, p) # 0

\* s[:i-1] + r + s[i-1+n:]
Splice(s, i, n, r) == SubSeq(s, 1, i - 1) \o r \o SubSeq(s, i + n, Len(s))

\* s.replace(p, r, 1)
Replace1(s, p, r) ==
    LET i == Find(s, p) IN IF i = 0 THEN s ELSE Splice(s, i, Len(p), r)

\* s.replace(p, r): every non-overlapping occurrence, left to right
RECURSIVE ReplaceFrom(_, _, _, _)
ReplaceFrom(s, p, r, from) ==
    LET I == {i \in from..(Len(s) - Len(p) + 1) : IsAt(s, i, p)}
    IN IF I = {} \/ Len(p) = 0 THEN s
       ELSE LET i == Min(I)
            IN ReplaceFrom(Splice(s, i, Len(p), r), p, r, i + Len(r))
ReplaceAll(s, p, r) == ReplaceFrom(s, p, r, 1)

\* some fragment of kind k occurs
HasKind(s, k) == \E i \in 1..Len(s) : s[i].k = k

\* content.split('\n')
RECURSIVE SplitFrom(_, _)
SplitFrom(s, from) ==
    LET I == {i \in from..Len(s) : s[i] = NL}
    IN IF I = {} THEN <<SubSeq(s, from, Len(s))>>
       ELSE <<SubSeq(s, from, Min(I) - 1)>> \o SplitFrom(s, Min(I) + 1)
Split(s) == SplitFrom(s, 1)

\* '\n'.join(lines)
RECURSIVE Join(_)
Join(lines) ==
    IF Len(lines) = 0 THEN <<>>
    ELSE IF Len(lines) = 1 THEN lines[1]
    ELSE lines[1] \o <<NL>> \o Join(Tail(lines))

\* list.insert(i, x) with a 0-based index i <= len
ListInsert(lines, i, x) ==
    SubSeq(lines, 1, i) \o <<x>> \o SubSeq(lines, i + 1, Len(lines))

(***************************************************************************)
(* The literals of the transform catalog, as fragment sequences            *)
(***************************************************************************)
\* UD_P_HEAD(c):  "  usageData = c({\n    totalTokens: 0,\n    totalCost: 0,\n
\*                 contextWindow: 0,\n    maxOutputTokens: 0,"
\* UD_P_FIELDS:   "    inputTokens: 0,\n    outputTokens: 0,\n
\*                 cacheCreation: 0,\n    cacheRead: 0,"
\* UD_P_TAIL:     "  });"
USAGE_DATA_ORIGINAL == <<TokA("UD_P_HEAD", "g1"), NL, Tok("UD_P_TAIL")>>
USAGE_DATA_PATCHED ==
    <<TokA("UD_P_HEAD", "g1"), NL, Tok("UD_P_FIELDS"), NL, Tok("UD_P_TAIL")>>

\* UD_M_HEAD(c): "usageData=c({totalTokens:0,totalCost:0,contextWindow:0,maxOutputTokens:0"
\* M_FIELDS:     ",inputTokens:0,outputTokens:0,cacheCreation:0,cacheRead:0"
M_FIELDS == Tok("M_FIELDS")

\* identifiers of the modelled bundles that match [a-zA-Z][a-zA-Z0-9]*
AlnumNames == {"g1", "p7", "n4", "o4", "dP1", "iP1", "Yi0", "Zi0", "WJ", "er0"}
\* identifiers that match _JS_ID only (a leading "$" or "_")
OtherNames == {"$7", "_Z", "$Z", "CC_MetricsBar", "_ccV", "_ccIcon", "_ccBar",
               "_ccAvatar"}

\* USAGE_DATA_MIN_PATTERN matches at i: the constructor name is matched by
\* [a-zA-Z][a-zA-Z0-9]* and must be followed at once by "({"
USAGE_DATA_MIN_PATTERN(s, i) ==
    /\ i + 2 <= Len(s)
    /\ s[i].k = "UD_M_HEAD"
    /\ s[i].a \in AlnumNames
    /\ s[i + 1] = RB
    /\ s[i + 2] = RP

\* re.sub(USAGE_DATA_MIN_PATTERN, USAGE_DATA_MIN_REPLACE, content, count=1)
USAGE_DATA_MIN_REPLACE(s) ==
    LET I == {i \in 1..Len(s) : USAGE_DATA_MIN_PATTERN(s, i)}
    IN IF I = {} THEN s ELSE Splice(s, Min(I) + 1, 0, <<M_FIELDS>>)

\* UU_P_HEAD:   "    this.usageData.value = {\n      totalTokens: J,\n ...
\*               maxOutputTokens: Z.maxOutputTokens,"
\* UU_P_FIELDS: "      inputTokens: $.input_tokens || 0,\n ... cacheRead: ... || 0,"
\* UU_P_TAIL:   "    };\n  }"
UPDATE_USAGE_ORIGINAL == <<Tok("UU_P_HEAD"), NL, Tok("UU_P_TAIL")>>
UPDATE_USAGE_PATCHED ==
    <<Tok("UU_P_HEAD"), NL, Tok("UU_P_FIELDS"), NL, Tok("UU_P_TAIL")>>
\* UU_M_HEAD:   "usageData.value={totalTokens:J,...,maxOutputTokens:Z.maxOutputTokens"
\* UU_M_FIELDS: ",inputTokens:$.input_tokens||0,...,cacheRead:$.cache_read_input_tokens||0"
UPDATE_USAGE_MIN_ORIGINAL == <<Tok("UU_M_HEAD"), RB>>
UPDATE_USAGE_MIN_PATCHED == <<Tok("UU_M_HEAD"), Tok("UU_M_FIELDS"), RB>>

\* RH_P_HEAD:   "        this.usageData.value = {\n          totalTokens: J.totalTokens,
\*               ...\n          maxOutputTokens: Q,"
\* RH_P_FIELDS: "          inputTokens: J.inputTokens || 0,\n ... cacheRead: J.cacheRead || 0,"
\* RH_P_TAIL:   "        };"
RESULT_HANDLER_ORIGINAL == <<Tok("RH_P_HEAD"), NL, Tok("RH_P_TAIL")>>
RESULT_HANDLER_PATCHED ==
    <<Tok("RH_P_HEAD"), NL, Tok("RH_P_FIELDS"), NL, Tok("RH_P_TAIL")>>
\* RH_M_HEAD:   "usageData.value={totalTokens:J.totalTokens,...,maxOutputTokens:Q"
\* RH_M_FIELDS: ",inputTokens:J.inputTokens||0,...,cacheRead:J.cacheRead||0"
RESULT_HANDLER_MIN_ORIGINAL == <<Tok("RH_M_HEAD"), RB>>
RESULT_HANDLER_MIN_PATCHED == <<Tok("RH_M_HEAD"), Tok("RH_M_FIELDS"), RB>>

\* CB_P_HEAD:   "{ ...this.usageData.value, totalTokens: 0"
\* CB_P_FIELDS: ", inputTokens: 0, outputTokens: 0, cacheCreation: 0, cacheRead: 0"
\* CB_P_TAIL:   " }"
COMPACT_ORIGINAL == <<Tok("CB_P_HEAD"), Tok("CB_P_TAIL")>>
COMPACT_PATCHED == <<Tok("CB_P_HEAD"), Tok("CB_P_FIELDS"), Tok("CB_P_TAIL")>>
\* CB_M_HEAD:   "{...this.usageData.value,totalTokens:0"  (its fields are M_FIELDS)
COMPACT_MIN_ORIGINAL == <<Tok("CB_M_HEAD"), RB>>
COMPACT_MIN_PATCHED == <<Tok("CB_M_HEAD"), M_FIELDS, RB>>

\* GATE_P: "if (U >= 50) return null;"   GATE_M: "if(U>=50)return null"
\* MARK_SHOW: "/* patched: always show */"   MARK_ER0: "/*er0*/"
GATE_P == Tok("GATE_P")
GATE_M == Tok("GATE_M")
MARK_SHOW == Tok("MARK_SHOW")
MARK_ER0 == Tok("MARK_ER0")
\* the (old_pat, new_pat) list of PATCH 2, in its order
er0_patterns ==
    << [old |-> <<GATE_P>>, new |-> <<MARK_SHOW>>],
       [old |-> <<GATE_M, RB>>, new |-> <<MARK_ER0, RB>>],
       [old |-> <<GATE_M, SEMI>>, new |-> <<MARK_SHOW>>] >>

(***************************************************************************)
(* The injected component definition                                       *)
(***************************************************************************)
\* VAR_SESSION "var _ccSessionStart = Date.now();"   VAR_ACCENT, VAR_DIM,
\* FN_CCV(r) "function _ccV(t) { return r.default.createElement(...); }",
\* CCP_OPEN "var _ccP = {" and its 16 entry lines, CCP_CLOSE "};",
\* FN_CCICON(r), FN_CCBAR(r), FN_CCAVATAR(r): the header and the indented body
\* lines of _ccIcon, _ccBar and _ccAvatar; VAR_DUSTIN "var _ccDustinImg = ...;"
\* FN_MB(r, h): "function CC_MetricsBar({ session: S }) {\n  h();\n ..." and
\* the rest of the indented body (9.5 kB).  Each block is closed by "\n}\n".
_METRICS_TEMPLATE ==
    << NL, Tok("VAR_SESSION"), NL, Tok("VAR_ACCENT"), NL, Tok("VAR_DIM"), NL,
       TokA("FN_CCV", "n4"), NL,
       Tok("CCP_OPEN"), NL, Tok("CCP_CLOSE"), NL,
       TokA("FN_CCICON", "n4"), NL, RB, NL,
       TokA("FN_CCBAR", "n4"), NL, RB, NL,
       Tok("VAR_DUSTIN"), NL,
       TokA("FN_CCAVATAR", "n4"), NL, RB, NL,
       TokAB("FN_MB", "n4", "_Z"), NL, RB, NL >>

\* the template with its base64 placeholder resolved (it holds no identifier)
METRICS_COMPONENT_DEF == _METRICS_TEMPLATE

\* kinds of the template that mention the React handle "n4."
ReactKinds == {"FN_CCV", "FN_CCICON", "FN_CCBAR", "FN_CCAVATAR", "FN_MB"}

\* METRICS_COMPONENT_DEF.replace('n4.', react_var + '.')
\*                      .replace('_Z();', signal_hook + '();')
metrics_def(react_var, signal_hook) ==
    [i \in 1..Len(METRICS_COMPONENT_DEF) |->
        LET t == METRICS_COMPONENT_DEF[i]
        IN IF t.k = "FN_MB" THEN TokAB("FN_MB", react_var, signal_hook)
           ELSE IF t.k \in ReactKinds THEN TokA(t.k, react_var)
           ELSE t]

\* the number of newline characters inside one fragment
Newlines(t) ==
    CASE t.k = "NL" -> 1
      [] t.k = "PAD" -> PadNewlines
      [] t.k = "UD_P_HEAD" -> 4
      [] t.k \in {"UD_P_FIELDS", "UU_P_FIELDS", "RH_P_FIELDS"} -> 3
      [] t.k \in {"UU_P_HEAD", "RH_P_HEAD"} -> 4
      [] t.k = "UU_P_TAIL" -> 1
      [] t.k = "CCP_OPEN" -> 16
      [] t.k = "FN_CCICON" -> 9
      [] t.k \in {"FN_CCBAR", "FN_CCAVATAR"} -> 4
      [] t.k = "FN_MB" -> 139
      [] OTHER -> 0

RECURSIVE CountNewlines(_)
CountNewlines(s) ==
    IF Len(s) = 0 THEN 0 ELSE Newlines(s[1]) + CountNewlines(Tail(s))

\* is_prettified as it would be with ">=" in place of ">"
is_prettified_at_threshold(content) ==
    CountNewlines(content) + 1 >= LineThreshold

\* len(content.split('\n')) > 5000
is_prettified(content) == CountNewlines(content) + 1 > LineThreshold

(***************************************************************************)
(* Fragments of the footer region                                          *)
(***************************************************************************)
\* FN(a):          "function a("
\* PARAMS_OBJ_M:   "{session:$}){"      PARAMS_M: "a,b){"
\* PARAMS_OBJ_P:   "{ session: $ }) {"
\* HOOK_M(a):      "a();"               HOOK_P(a): "  a();"
\* RET:            "return "
\* DIVFOOT_M(a,b): 'a.default.createElement("div",{className:b.inputFooter}'
\* CE(a,b):        "a.default.createElement(b"
\* ID(a):          "a"                  DOTCE(b):  ".default.createElement(b"
\* ARGS_M:         ",{session:$})"      MBARGS:    ", { session: $ })"
\* TAIL_M:         ")}"
\* RETCE_P(a):     "  return a.default.createElement("
\* DIVSTR_P:       '    "div",'
\* FOOTLINE_P(b):  "{ className: b.inputFooter },"
\* CLOSE_P:        "  );"
FN(a) == TokA("FN", a)
CE(a, b) == TokAB("CE", a, b)
DIVFOOT_M(a, b) == TokAB("DIVFOOT_M", a, b)
FOOTLINE_P(b) == TokAB("FOOTLINE_P", "", b)
RET == Tok("RET")
ARGS_M == Tok("ARGS_M")
MBARGS == Tok("MBARGS")

\* the identifiers that occur in a fragment (for "name in line" tests)
NamesIn(t) ==
    ({t.a, t.b} \ {""}) \cup (IF t.k = "FN_MB" THEN {"CC_MetricsBar"} ELSE {})
Mentions(name, line) == \E i \in 1..Len(line) : name \in NamesIn(line[i])

\* 'CC_MetricsBar' in content
HasMetricsBarName(s) == Mentions("CC_MetricsBar", s)
\* 'function CC_MetricsBar' in content
HasMetricsBarDef(s) == HasKind(s, "FN_MB")
\* 'createElement(CC_MetricsBar' in content
HasMetricsBarCall(s) ==
    \E i \in 1..Len(s) : s[i].k \in {"CE", "DOTCE"} /\ s[i].b = "CC_MetricsBar"

\* first index whose fragment satisfies the test, 0 when none
FirstIdx(S) == IF S = {} THEN 0 ELSE Min(S)
LastIdx(S) == IF S = {} THEN 0 ELSE Max(S)

(***************************************************************************)
(* Anchor detection                                                        *)
(***************************************************************************)
\* re.search(r'(_JS_ID)\.inputFooter'): the first ".inputFooter" reference
detect_css_module_var(content) ==
    LET i == FirstIdx({i \in 1..Len(content) :
                          content[i].k \in {"DIVFOOT_M", "FOOTLINE_P"}})
    IN IF i # 0 THEN content[i].b ELSE "WJ"

detect_react_var(content, css_var) ==
    LET i == FirstIdx({i \in 2..Len(content) :
                          /\ content[i].k = "DIVFOOT_M"
                          /\ content[i].b = css_var
                          /\ content[i - 1] = RET})
        j == FirstIdx({j \in 1..Len(content) : content[j].k = "DIVFOOT_M"})
    IN IF i # 0 THEN content[i].a
       ELSE IF j # 0 THEN content[j].a
       ELSE "n4"

\* r'createElement\(CC_MetricsBar[^)]*\),(ID)\.default\.createElement\((ID)'
AfterMetricsBarCall(s, i) ==
    /\ i + 3 <= Len(s)
    /\ s[i].k \in {"CE", "DOTCE"}
    /\ s[i].b = "CC_MetricsBar"
    /\ s[i + 1] \in {MBARGS, ARGS_M}
    /\ s[i + 2] = COMMA
    /\ s[i + 3].k = "CE"

detect_footer_component(content, css_var) ==
    LET i == FirstIdx({i \in 1..(Len(content) - 2) :
                          /\ content[i].k = "DIVFOOT_M"
                          /\ content[i].b = css_var
                          /\ content[i + 1] = COMMA
                          /\ content[i + 2].k = "CE"})
        comp == content[i + 2].b
        m2 == FirstIdx({j \in 1..Len(content) : AfterMetricsBarCall(content, j)})
    IN IF i = 0 THEN "dP1"
       ELSE IF comp = "CC_MetricsBar" /\ m2 # 0 THEN content[m2 + 3].b
       ELSE comp

\* content.find('className:{css}.inputFooter'), then the spaced spelling;
\* 0 stands for -1
footer_pos(content, css_var) ==
    LET i == FirstIdx({i \in 1..Len(content) :
                          content[i].k = "DIVFOOT_M" /\ content[i].b = css_var})
        j == FirstIdx({j \in 1..Len(content) :
                          content[j].k = "FOOTLINE_P" /\ content[j].b = css_var})
    IN IF i # 0 THEN i ELSE j

\* fragments longer than the 5000 characters searched before footer_pos
Barrier == {"PAD", "GAP", "FN_MB"}

\* first index of content[max(0, footer_pos - 5000):footer_pos]: the window
\* ends where a fragment of more than 5000 characters lies before footer_pos
search_start(content, pos) ==
    LastIdx({i \in 1..(pos - 1) : content[i].k \in Barrier}) + 1

\* the name a fragment defines with "function NAME(", "" when it defines none
FnName(t) ==
    CASE t.k = "FN" -> t.a
      [] t.k = "FN_CCV" -> "_ccV"
      [] t.k = "FN_CCICON" -> "_ccIcon"
      [] t.k = "FN_CCBAR" -> "_ccBar"
      [] t.k = "FN_CCAVATAR" -> "_ccAvatar"
      [] t.k = "FN_MB" -> "CC_MetricsBar"
      [] OTHER -> ""

detect_signal_hook(content, css_var) ==
    LET pos == footer_pos(content, css_var)
        lo == search_start(content, pos)
        \* r'function ID\(\{[^}]+\}\)\{'
        m1 == {i \in lo..(pos - 2) :
                  content[i].k = "FN" /\ content[i + 1].k = "PARAMS_OBJ_M"}
        \* r'function ID\([^)]+\)\{'
        m2 == {i \in lo..(pos - 2) :
                  /\ content[i].k = "FN"
                  /\ content[i + 1].k \in {"PARAMS_OBJ_M", "PARAMS_M"}}
        fn_matches == IF m1 # {} THEN m1 ELSE m2
        body == Max(fn_matches) + 2
    IN IF pos = 0 THEN "_Z"
       ELSE IF fn_matches # {} /\ body < pos /\ content[body].k = "HOOK_M"
            THEN content[body].a
       ELSE "_Z"

\* the last "function NAME(" of the window; "" stands for None
detect_footer_function(content, css_var) ==
    LET pos == footer_pos(content, css_var)
        lo == search_start(content, pos)
        matches == {i \in lo..(pos - 1) : FnName(content[i]) # ""}
    IN IF pos = 0 THEN ""
       ELSE IF matches # {} THEN FnName(content[Max(matches)])
       ELSE ""

(***************************************************************************)
(* patch_js, transform by transform.  Each step maps the in-memory content *)
(* to [c |-> new content, r |-> the line it prints].                       *)
(***************************************************************************)
\* 'inputTokens:0' in content
HasInputTokensMin(s) == HasKind(s, "M_FIELDS")
\* 'inputTokens: 0,' in content
HasInputTokensPretty(s) == HasKind(s, "UD_P_FIELDS") \/ HasKind(s, "CB_P_FIELDS")
\* 'inputTokens:$.input_tokens' / 'inputTokens: $.input_tokens' in content
HasUpdateTokens(s) == HasKind(s, "UU_M_FIELDS") \/ HasKind(s, "UU_P_FIELDS")
\* 'inputTokens:J.inputTokens' / 'inputTokens: J.inputTokens' in content
HasResultTokens(s) == HasKind(s, "RH_M_FIELDS") \/ HasKind(s, "RH_P_FIELDS")

\* PATCH 0a: usageData signal
patch_usage_data(content) ==
    IF ~HasInputTokensMin(content) /\ ~HasInputTokensPretty(content)
    THEN IF In(USAGE_DATA_ORIGINAL, content)
         THEN [c |-> Replace1(content, USAGE_DATA_ORIGINAL, USAGE_DATA_PATCHED),
               r |-> "OK_P"]
         ELSE IF \E i \in 1..Len(content) : USAGE_DATA_MIN_PATTERN(content, i)
         THEN [c |-> USAGE_DATA_MIN_REPLACE(content), r |-> "OK_M"]
         ELSE [c |-> content, r |-> "WARN"]
    ELSE [c |-> content, r |-> "SKIP"]

\* PATCH 0b: updateUsage()
patch_update_usage(content) ==
    IF ~HasUpdateTokens(content)
    THEN IF In(UPDATE_USAGE_ORIGINAL, content)
         THEN [c |-> Replace1(content, UPDATE_USAGE_ORIGINAL, UPDATE_USAGE_PATCHED),
               r |-> "OK_P"]
         ELSE IF In(UPDATE_USAGE_MIN_ORIGINAL, content)
         THEN [c |-> Replace1(content, UPDATE_USAGE_MIN_ORIGINAL,
                              UPDATE_USAGE_MIN_PATCHED),
               r |-> "OK_M"]
         ELSE [c |-> content, r |-> "WARN"]
    ELSE [c |-> content, r |-> "SKIP"]

\* PATCH 0c: result handler
patch_result_handler(content) ==
    IF ~HasResultTokens(content)
    THEN IF In(RESULT_HANDLER_ORIGINAL, content)
         THEN [c |-> Replace1(content, RESULT_HANDLER_ORIGINAL,
                              RESULT_HANDLER_PATCHED),
               r |-> "OK_P"]
         ELSE IF In(RESULT_HANDLER_MIN_ORIGINAL, content)
         THEN [c |-> Replace1(content, RESULT_HANDLER_MIN_ORIGINAL,
                              RESULT_HANDLER_MIN_PATCHED),
               r |-> "OK_M"]
         ELSE [c |-> content, r |-> "WARN"]
    ELSE [c |-> content, r |-> "SKIP"]

\* PATCH 0d: compact_boundary
patch_compact_boundary(content) ==
    IF In(COMPACT_ORIGINAL, content)
    THEN [c |-> Replace1(content, COMPACT_ORIGINAL, COMPACT_PATCHED), r |-> "OK_P"]
    ELSE IF In(COMPACT_MIN_ORIGINAL, content)
    THEN [c |-> Replace1(content, COMPACT_MIN_ORIGINAL, COMPACT_MIN_PATCHED),
          r |-> "OK_M"]
    ELSE IF In(COMPACT_PATCHED, content) \/ In(COMPACT_MIN_PATCHED, content)
    THEN [c |-> content, r |-> "SKIP"]
    ELSE [c |-> content, r |-> "WARN"]

\* 0-based index of the first line that contains "function name(", -1 if none
LineOfFunction(lines, name) ==
    LET I == {i \in 1..Len(lines) :
                 \E j \in 1..Len(lines[i]) : FnName(lines[i][j]) = name}
    IN IF I = {} \/ name = "" THEN -1 ELSE Min(I) - 1

\* PATCH 1a: define CC_MetricsBar
patch_component_def(content, prettified, css_var, react_var, signal_hook) ==
    LET def == metrics_def(react_var, signal_hook)
        footer_fn == detect_footer_function(content, css_var)
        lines == Split(content)
        found == LineOfFunction(lines, footer_fn)
        \* the fallback of the prettified branch looks for 'function Zi0('
        insert_line == IF found # -1 THEN found ELSE LineOfFunction(lines, "Zi0")
        anchor == <<FN(footer_fn)>>
    IN IF HasMetricsBarDef(content) THEN [c |-> content, r |-> "SKIP"]
       ELSE IF prettified
       THEN IF insert_line = -1 THEN [c |-> content, r |-> "ERROR"]
            ELSE [c |-> Join(ListInsert(lines, insert_line, def)), r |-> "OK_P"]
       ELSE IF footer_fn = "" THEN [c |-> content, r |-> "ERROR"]
            ELSE IF ~In(anchor, content) THEN [c |-> content, r |-> "ERROR"]
            ELSE [c |-> Replace1(content, anchor, def \o <<NL>> \o anchor),
                  r |-> "OK_M"]

\* metrics_bar_call: 'R.default.createElement(CC_MetricsBar, { session: $ }),'
metrics_bar_call(react_var) == <<CE(react_var, "CC_MetricsBar"), MBARGS, COMMA>>

\* str.rstrip() of a line
RECURSIVE RStrip(_)
RStrip(line) ==
    IF Len(line) > 0 /\ line[Len(line)] \in {SP, IND4}
    THEN RStrip(SubSeq(line, 1, Len(line) - 1))
    ELSE line

\* the line holds '{ className: C.inputFooter },' or '{className:C.inputFooter},'
IsFooterLine(line, css_var) ==
    \/ \E j \in 1..Len(line) : line[j] = FOOTLINE_P(css_var)
    \/ \E j \in 1..(Len(line) - 1) :
          /\ line[j].k = "DIVFOOT_M"
          /\ line[j].b = css_var
          /\ line[j + 1] = COMMA

\* PATCH 1b, prettified branch: the loop over the lines
inject_call_prettified(content, css_var, react_var, footer_comp) ==
    LET lines == Split(content)
        n == Len(lines)
        call == <<IND4>> \o metrics_bar_call(react_var)
        \* lines[j] for j in range(i + 1, min(i + 5, len(lines))), 1-based here
        Window(i) == {j \in (i + 1)..Min({i + 4, n}) :
                         Mentions(footer_comp, lines[j])}
        Hit(i) == /\ IsFooterLine(lines[i], css_var)
                  /\ (Mentions(footer_comp, lines[i]) \/ Window(i) # {})
        I == {i \in 1..n : Hit(i)}
        i == Min(I)
        old_line == lines[i]
        \* old_line.index(comp_marker), else the marker without the React name
        exact == FirstIdx({j \in 1..Len(old_line) :
                              old_line[j] = CE(react_var, footer_comp)})
        loose == FirstIdx({j \in 1..Len(old_line) :
                              /\ old_line[j].k \in {"CE", "DOTCE"}
                              /\ old_line[j].b = footer_comp})
        part1 == IF exact # 0 THEN SubSeq(old_line, 1, exact - 1)
                 ELSE IF old_line[loose].k = "CE"
                 THEN SubSeq(old_line, 1, loose - 1)
                          \o <<TokA("ID", old_line[loose].a)>>
                 ELSE SubSeq(old_line, 1, loose - 1)
        part2 == IF exact # 0 THEN SubSeq(old_line, exact, Len(old_line))
                 ELSE <<TokAB("DOTCE", "", footer_comp)>>
                          \o SubSeq(old_line, loose + 1, Len(old_line))
        split == SubSeq(lines, 1, i - 1)
                     \o <<RStrip(part1), call, <<IND4>> \o part2>>
                     \o SubSeq(lines, i + 1, n)
        j == Min(Window(i))
    IN IF I = {} THEN [c |-> content, r |-> "ERROR"]
       ELSE IF Mentions(footer_comp, old_line)
       THEN IF exact = 0 /\ loose = 0 THEN [c |-> content, r |-> "EXC"]
            ELSE [c |-> Join(split), r |-> "OK_SPLIT"]
       ELSE [c |-> Join(ListInsert(lines, j - 1, call)), r |-> "OK_P"]

\* PATCH 1b: inject the call
patch_component_call(content, prettified, css_var, react_var, footer_comp) ==
    LET old_return == <<RET, DIVFOOT_M(react_var, css_var), COMMA>>
        new_return == old_return \o metrics_bar_call(react_var)
    IN IF HasMetricsBarName(content) /\ ~HasMetricsBarCall(content)
       THEN IF prettified
            THEN inject_call_prettified(content, css_var, react_var, footer_comp)
            ELSE IF ~In(old_return, content) THEN [c |-> content, r |-> "ERROR"]
                 ELSE [c |-> Replace1(content, old_return, new_return),
                       r |-> "OK_M"]
       ELSE IF HasMetricsBarCall(content) THEN [c |-> content, r |-> "SKIP"]
       ELSE [c |-> content, r |-> "NONE"]

\* PATCH 2 as it would be with str.replace(old, new) in place of
\* str.replace(old, new, 1): every occurrence of the spelling is replaced
patch_er0_every(content) ==
    LET I == {i \in 1..Len(er0_patterns) : In(er0_patterns[i].old, content)}
        i == Min(I)
    IN IF I # {}
       THEN [c |-> ReplaceAll(content, er0_patterns[i].old, er0_patterns[i].new),
             r |-> IF i = 1 THEN "OK1" ELSE IF i = 2 THEN "OK2" ELSE "OK3"]
       ELSE IF In(<<MARK_SHOW>>, content) THEN [c |-> content, r |-> "SKIP"]
       ELSE [c |-> content, r |-> "WARN"]

\* PATCH 2: the loop over er0_patterns, then the marker test
patch_er0(content) ==
    LET I == {i \in 1..Len(er0_patterns) : In(er0_patterns[i].old, content)}
        i == Min(I)
    IN IF I # {}
       THEN [c |-> Replace1(content, er0_patterns[i].old, er0_patterns[i].new),
             r |-> IF i = 1 THEN "OK1" ELSE IF i = 2 THEN "OK2" ELSE "OK3"]
       ELSE IF In(<<MARK_SHOW>>, content) THEN [c |-> content, r |-> "SKIP"]
       ELSE [c |-> content, r |-> "WARN"]

\* what one run of patch_js prints per transform when the step is not reached
NotRun == "NONE"
NoJsRep == [ud |-> NotRun, uu |-> NotRun, rh |-> NotRun, cb |-> NotRun,
            def |-> NotRun, call |-> NotRun, er0 |-> NotRun]

\* patch_js before PATCH 0a: the text read from index.js and what is detected
\* in it.  ret is "run" while the function runs, then "true" or "false" for
\* the returned value and "exc" for an uncaught exception; written tells
\* whether the run reached the write, and content is the in-memory text.
patch_js_start(file) ==
    [content |-> file, ret |-> "run", written |-> FALSE,
     prettified |-> is_prettified(file),
     css_var |-> detect_css_module_var(file),
     react_var |-> detect_react_var(file, detect_css_module_var(file)),
     footer_comp |-> detect_footer_component(file, detect_css_module_var(file)),
     signal_hook |-> detect_signal_hook(file, detect_css_module_var(file)),
     pre_er0 |-> <<>>, rep |-> NoJsRep]

\* a token transform as it would be if a missing pattern ended patch_js with
\* "return False"
after_tokens_fatal(st, field, p) ==
    IF p.r = "WARN"
    THEN [st EXCEPT !.ret = "false", !.rep = [@ EXCEPT ![field] = p.r]]
    ELSE [st EXCEPT !.content = p.c, !.rep = [@ EXCEPT ![field] = p.r]]

\* a token transform (PATCH 0a to 0d) has run: it never ends the function
after_tokens(st, field, p) ==
    [st EXCEPT !.content = p.c, !.rep = [@ EXCEPT ![field] = p.r]]

\* PATCH 1a as it would be if the text were written before "return False"
after_def_write_first(st, p) ==
    IF p.r = "ERROR"
    THEN [st EXCEPT !.ret = "false", !.written = TRUE,
                    !.rep = [@ EXCEPT !.def = p.r]]
    ELSE [st EXCEPT !.content = p.c, !.rep = [@ EXCEPT !.def = p.r]]

\* PATCH 1a has run: "return False" when the definition was not injected
after_def(st, p) ==
    IF p.r = "ERROR"
    THEN [st EXCEPT !.ret = "false", !.rep = [@ EXCEPT !.def = p.r]]
    ELSE [st EXCEPT !.content = p.c, !.rep = [@ EXCEPT !.def = p.r]]

\* PATCH 1b has run: "return False" when no call site was found, and the
\* ValueError of old_line.index() leaves the function
after_call(st, p) ==
    IF p.r = "ERROR" THEN [st EXCEPT !.ret = "false", !.rep = [@ EXCEPT !.call = p.r]]
    ELSE IF p.r = "EXC" THEN [st EXCEPT !.ret = "exc", !.rep = [@ EXCEPT !.call = p.r]]
    ELSE [st EXCEPT !.content = p.c, !.pre_er0 = p.c,
                    !.rep = [@ EXCEPT !.call = p.r]]

\* PATCH 2 has run, the file is written and the function returns True
after_er0(st, p) ==
    [st EXCEPT !.content = p.c, !.ret = "true", !.written = TRUE,
               !.rep = [@ EXCEPT !.er0 = p.r]]

\* the k-th transform of patch_js, in the order of the source
patch_step(k, st) ==
    CASE k = 1 -> after_tokens(st, "ud", patch_usage_data(st.content))
      [] k = 2 -> after_tokens(st, "uu", patch_update_usage(st.content))
      [] k = 3 -> after_tokens(st, "rh", patch_result_handler(st.content))
      [] k = 4 -> after_tokens(st, "cb", patch_compact_boundary(st.content))
      [] k = 5 -> after_def(st, patch_component_def(st.content, st.prettified,
                                st.css_var, st.react_var, st.signal_hook))
      [] k = 6 -> after_call(st, patch_component_call(st.content, st.prettified,
                                 st.css_var, st.react_var, st.footer_comp))
      [] k = 7 -> after_er0(st, patch_er0(st.content))
      [] OTHER -> st

\* the transforms from the k-th on, until the function returns or raises
RECURSIVE patch_from(_, _)
patch_from(st, k) ==
    IF st.ret # "run" \/ k > 7 THEN st ELSE patch_from(patch_step(k, st), k + 1)

patch_js(file) == patch_from(patch_js_start(file), 1)

(***************************************************************************)
(* The stylesheet                                                          *)
(***************************************************************************)
\* CSS_BASE:   the stylesheet as shipped (no marker of the engine)
\* CSS_CUSTOM: "\n/* Custom Session Metrics Bar - cc-improve v12-debug */
\*              \n.inputFooter_gGYT1w{flex-wrap:wrap !important}
\*              \n.sessionMetrics_cc{flex:0 0 100% !important;order:-1 !important}"
\* CSS_ST:     "\n/* ST palette */\n:root{--app-claude-orange:#e04040 ...}
\*              \n.inputContainer_cKsPxg{...}...\n.inputFooter_gGYT1w{...}"
\* CSS_USER:   a rule of the host or the user that names ".sessionMetrics_cc"
\*             but is not the block of the engine
custom_css == <<Tok("CSS_CUSTOM")>>
st_css == <<Tok("CSS_ST")>>

\* '.sessionMetrics_cc' in content
HasSessionMetricsCss(s) == HasKind(s, "CSS_CUSTOM") \/ HasKind(s, "CSS_USER")
\* '/* ST palette */' in content
HasStPalette(s) == HasKind(s, "CSS_ST")

\* patch_css as it would be without the test for the palette marker
patch_css_unguarded(file) ==
    LET c1 == IF ~HasSessionMetricsCss(file) THEN file \o custom_css ELSE file
    IN [ret |-> "true", written |-> TRUE, content |-> c1 \o st_css,
        rep |-> [custom |-> IF ~HasSessionMetricsCss(file) THEN "OK" ELSE "SKIP",
                 st |-> "OK"]]

patch_css(file) ==
    LET c1 == IF ~HasSessionMetricsCss(file) THEN file \o custom_css ELSE file
        c2 == IF ~HasStPalette(c1) THEN c1 \o st_css ELSE c1
        changed == ~HasSessionMetricsCss(file) \/ ~HasStPalette(c1)
    IN [ret |-> "true", written |-> changed, content |-> c2,
        rep |-> [custom |-> IF ~HasSessionMetricsCss(file) THEN "OK" ELSE "SKIP",
                 st |-> IF ~HasStPalette(c1) THEN "OK" ELSE "SKIP"]]

(***************************************************************************)
(* verify: the checklist, in the order and under the labels of the source  *)
(***************************************************************************)
\* a gate spelling is present
HasGateP(s) == In(<<GATE_P>>, s)
HasGateBrace(s) == In(<<GATE_M, RB>>, s)
HasGateSemi(s) == In(<<GATE_M, SEMI>>, s)

Check(name, ok) == [name |-> name, ok |-> ok]

checks(js, css) ==
    LET mb == HasKind(js, "FN_MB")
        avatar == HasKind(js, "FN_CCAVATAR")
        dustin == HasKind(js, "VAR_DUSTIN")
    IN << Check("JS: _ccSessionStart defined", HasKind(js, "VAR_SESSION")),
          Check("JS: _ccAccent defined", HasKind(js, "VAR_ACCENT")),
          Check("JS: _ccDim defined", HasKind(js, "VAR_DIM")),
          Check("JS: _ccV value helper", HasKind(js, "FN_CCV")),
          Check("JS: _ccP icon paths defined", HasKind(js, "CCP_OPEN") /\ mb),
          Check("JS: _ccIcon function present", HasKind(js, "FN_CCICON")),
          Check("JS: _ccBar helper present", HasKind(js, "FN_CCBAR")),
          Check("JS: _ccDustinImg defined", (dustin \/ avatar) /\ dustin),
          Check("JS: _ccAvatar function present", avatar),
          Check("JS: metrics component present", HasMetricsBarDef(js)),
          Check("JS: metrics bar in DOM", mb),
          Check("JS: CC_MetricsBar call injected", HasMetricsBarCall(js)),
          Check("JS: row layout (flexDirection row)", mb),
          Check("JS: avatar called", avatar \/ mb),
          Check("JS: icons used in Row1", mb),
          Check("JS: icons used in Row2", mb),
          Check("JS: icons used in Row3", mb),
          Check("JS: icons used in Row4", mb),
          Check("JS: usageData has inputTokens",
                HasInputTokensMin(js) \/ HasInputTokensPretty(js)),
          Check("JS: updateUsage stores individual tokens", HasUpdateTokens(js)),
          Check("JS: result handler preserves tokens", HasResultTokens(js)),
          Check("JS: compact_boundary resets tokens",
                HasKind(js, "M_FIELDS") \/ HasKind(js, "CB_P_FIELDS")),
          Check("JS: Row2 shows totalIn with cache%", mb),
          Check("JS: Row3 utilization signals", mb),
          Check("JS: Row3 session time", (HasKind(js, "VAR_SESSION") \/ mb) /\ mb),
          Check("JS: Row3 last activity", mb),
          Check("JS: Row4 reset countdowns", mb),
          Check("JS: er0 patched",
                ~HasGateP(js) /\ ~HasGateBrace(js) /\ ~HasGateSemi(js)),
          Check("CSS: custom styles", HasSessionMetricsCss(css)),
          Check("CSS: flex-wrap on inputFooter", HasKind(css, "CSS_CUSTOM")),
          Check("CSS: ST palette accent", HasKind(css, "CSS_ST")),
          Check("CSS: ST palette button", HasKind(css, "CSS_ST")),
          Check("CSS: ST input border", HasKind(css, "CSS_ST")),
          Check("JS: dim/accent color scheme", (HasKind(js, "FN_CCV") \/ mb) /\ mb),
          Check("JS: Row5 thinking level", mb),
          Check("JS: Row5 message count", mb),
          Check("JS: Row5 output utilization", mb),
          Check("JS: Row6 cost rate", mb),
          Check("JS: Row6 throughput", mb),
          Check("JS: Row6 compaction counter", mb),
          Check("JS: icons used in Row5", mb),
          Check("JS: icons used in Row6", mb),
          Check("JS: Row2 workdir display", mb),
          Check("JS: Row2 git branch display", (HasKind(js, "CCP_OPEN") \/ mb) /\ mb),
          Check("JS: icons used in Row2 (folder+gitBr)", mb) >>

\* all_ok of verify()
verify(js, css) ==
    LET c == checks(js, css) IN \A i \in 1..Len(c) : c[i].ok

(***************************************************************************)
(* clean: the regular expressions of the reverser                          *)
(***************************************************************************)
\* fragments whose text starts with "}"
StartsWithBrace(t) == t.k \in {"RB", "CCP_CLOSE"}

\* the index just past the run of "\n" that starts at i
RECURSIVE SkipNewlines(_, _)
SkipNewlines(s, i) ==
    IF i <= Len(s) /\ s[i] = NL THEN SkipNewlines(s, i + 1) ELSE i

\* the first index of the run of "\n" that ends at i
RECURSIVE RunStart(_, _)
RunStart(s, i) ==
    IF i > 1 /\ s[i - 1] = NL THEN RunStart(s, i - 1) ELSE i

\* re.sub(r'\n+var _ccSessionStart = Date\.now\(\);.*?function CC_MetricsBar
\*        \(\{[^}]*\}\)[^\n]*\n.*?\n\}\n*', '', js, count=1, flags=re.DOTALL)
remove_metrics_block(js) ==
    LET V == {i \in 2..Len(js) :
                 /\ js[i].k = "VAR_SESSION"
                 /\ js[i - 1] = NL
                 /\ \E m \in (i + 1)..Len(js) :
                       /\ js[m].k = "FN_MB"
                       /\ \E e \in (m + 1)..(Len(js) - 1) :
                             js[e] = NL /\ StartsWithBrace(js[e + 1])}
        i == Min(V)
        m == Min({m \in (i + 1)..Len(js) : js[m].k = "FN_MB"})
        e == Min({e \in (m + 1)..(Len(js) - 1) :
                     js[e] = NL /\ StartsWithBrace(js[e + 1])})
        \* the match ends inside js[e + 1] when that fragment is "};"
        rest == IF js[e + 1].k = "CCP_CLOSE" THEN <<SEMI>> ELSE <<>>
        stop == IF js[e + 1].k = "CCP_CLOSE" THEN e + 2 ELSE SkipNewlines(js, e + 2)
    IN IF V = {} THEN js
       ELSE SubSeq(js, 1, RunStart(js, i - 1) - 1) \o rest
                \o SubSeq(js, stop, Len(js))

\* re.sub(r'\n<line>\n', '\n', js, count=1) for a one-line declaration
remove_line(js, kind) ==
    LET I == {i \in 1..(Len(js) - 2) :
                 js[i] = NL /\ js[i + 1].k = kind /\ js[i + 2] = NL}
    IN IF I = {} THEN js ELSE Splice(js, Min(I), 3, <<NL>>)

\* the same without count: every non-overlapping match
RECURSIVE remove_lines_from(_, _, _)
remove_lines_from(js, kind, from) ==
    LET I == {i \in from..(Len(js) - 2) :
                 js[i] = NL /\ js[i + 1].k = kind /\ js[i + 2] = NL}
    IN IF I = {} THEN js
       ELSE remove_lines_from(Splice(js, Min(I), 3, <<NL>>), kind, Min(I) + 1)
remove_lines(js, kind) == remove_lines_from(js, kind, 1)

\* re.sub(r'\n<header>.*?<close>', '\n', js, count=1, flags=re.DOTALL) for a
\* block that opens with a fragment of the kind and closes with "\n}\n" or
\* "\n};\n"
remove_block(js, kind, close) ==
    LET I == {i \in 1..(Len(js) - 1) :
                 /\ js[i] = NL
                 /\ js[i + 1].k = kind
                 /\ \E e \in (i + 2)..Len(js) : IsAt(js, e, close)}
        i == Min(I)
        e == Min({e \in (i + 2)..Len(js) : IsAt(js, e, close)})
    IN IF I = {} THEN js ELSE Splice(js, i, e + Len(close) - i, <<NL>>)

\* re.sub(_JS_ID + r'\.default\.createElement\(CC_MetricsBar,\s*\{[^}]*\}\),?',
\*        '', js, count=1)
remove_call(js) ==
    LET I == {i \in 1..(Len(js) - 1) :
                 /\ js[i].k = "CE"
                 /\ js[i].b = "CC_MetricsBar"
                 /\ js[i + 1] \in {MBARGS, ARGS_M}}
        i == Min(I)
        n == IF i + 2 <= Len(js) /\ js[i + 2] = COMMA THEN 3 ELSE 2
    IN IF I = {} THEN js ELSE Splice(js, i, n, <<>>)

\* the k-th substitution of clean(), in the order of the source
clean_step(k, s) ==
    CASE k = 1 -> IF ~is_prettified(s) /\ HasKind(s, "VAR_SESSION")
                  THEN remove_metrics_block(s) ELSE s
      [] k = 2 -> remove_line(s, "VAR_SESSION")
      [] k = 3 -> remove_line(s, "VAR_ACCENT")
      [] k = 4 -> remove_line(s, "VAR_DIM")
      [] k = 5 -> remove_lines(s, "FN_CCV")
      [] k = 6 -> remove_block(s, "CCP_OPEN", <<NL, Tok("CCP_CLOSE"), NL>>)
      [] k = 7 -> remove_block(s, "FN_CCICON", <<NL, RB, NL>>)
      [] k = 8 -> remove_block(s, "FN_CCBAR", <<NL, RB, NL>>)
      [] k = 9 -> remove_line(s, "VAR_DUSTIN")
      [] k = 10 -> remove_block(s, "FN_CCAVATAR", <<NL, RB, NL>>)
      [] k = 11 -> remove_block(s, "FN_MB", <<NL, RB, NL>>)
      [] k = 12 -> remove_call(s)
      [] k = 13 -> ReplaceAll(s, USAGE_DATA_PATCHED, USAGE_DATA_ORIGINAL)
      \* re.sub(r',inputTokens:0,outputTokens:0,cacheCreation:0,cacheRead:0\}', '}')
      [] k = 14 -> ReplaceAll(s, <<M_FIELDS, RB>>, <<RB>>)
      [] k = 15 -> ReplaceAll(s, UPDATE_USAGE_PATCHED, UPDATE_USAGE_ORIGINAL)
      [] k = 16 -> ReplaceAll(s, UPDATE_USAGE_MIN_PATCHED, UPDATE_USAGE_MIN_ORIGINAL)
      [] k = 17 -> ReplaceAll(s, RESULT_HANDLER_PATCHED, RESULT_HANDLER_ORIGINAL)
      [] k = 18 -> ReplaceAll(s, RESULT_HANDLER_MIN_PATCHED, RESULT_HANDLER_MIN_ORIGINAL)
      [] k = 19 -> ReplaceAll(s, COMPACT_PATCHED, COMPACT_ORIGINAL)
      [] k = 20 -> ReplaceAll(s, COMPACT_MIN_PATCHED, COMPACT_MIN_ORIGINAL)
      [] k = 21 -> ReplaceAll(s, <<MARK_ER0, RB>>, <<GATE_M, RB>>)
      [] k = 22 -> ReplaceAll(s, <<MARK_SHOW>>, <<GATE_P>>)
      [] OTHER -> s

\* the substitutions from the k-th on, each applied to the result of the one
\* before it (the comparison makes TLC compute a step before the next starts)
RECURSIVE clean_from(_, _)
clean_from(s, k) ==
    IF k > 22 THEN s
    ELSE LET t == clean_step(k, s)
         IN IF t = s THEN clean_from(s, k + 1) ELSE clean_from(t, k + 1)

\* the code half of clean()
clean_js(file) == clean_from(file, 1)

\* the stylesheet half: re.sub(r'\n/\* Custom Session Metrics Bar.*$', '') and
\* re.sub(r'\n/\* ST palette \*/.*$', ''), both with re.DOTALL
truncate_at(css, kind) ==
    LET I == {i \in 1..Len(css) : css[i].k = kind}
    IN IF I = {} THEN css ELSE SubSeq(css, 1, Min(I) - 1)

\* the stylesheet half as it would be without the second substitution
clean_css_custom_only(file) == truncate_at(file, "CSS_CUSTOM")

\* the stylesheet half as it would be without the first substitution
clean_css_st_only(file) == truncate_at(file, "CSS_ST")

clean_css(file) == truncate_at(truncate_at(file, "CSS_CUSTOM"), "CSS_ST")

(***************************************************************************)
(* The bundles the runs start from                                         *)
(***************************************************************************)
\* most occurrences of the compact_boundary expression in a bundle
MaxCompact == 2
\* most visibility gates in a bundle
MaxGates == 2
\* most runs of the tool in one behaviour
MaxSteps == 2

RECURSIVE Repeat(_, _)
Repeat(s, n) == IF n = 0 THEN <<>> ELSE s \o Repeat(s, n - 1)

RECURSIVE Flatten(_)
Flatten(ss) == IF Len(ss) = 0 THEN <<>> ELSE ss[1] \o Flatten(Tail(ss))

\* the gate in its three spellings, as in er0_patterns
Gate(g) == er0_patterns[g].old

\* a bundle in the minified layout: one long line
MinBundle(cfg) ==
    (IF cfg.big THEN (IF cfg.trim THEN <<PAD>> ELSE <<PAD, NL>>) ELSE <<>>)
    \o <<CODE>>
    \o (IF cfg.fn = "dup" THEN <<FN("Yi0"), Tok("PARAMS_M"), CODE, RB>> ELSE <<>>)
    \o <<TokA("UD_M_HEAD", cfg.ctor), RB, RP, SEMI>>
    \o (IF cfg.upd THEN UPDATE_USAGE_MIN_ORIGINAL ELSE <<>>)
    \o (IF cfg.res THEN RESULT_HANDLER_MIN_ORIGINAL ELSE <<>>)
    \o Repeat(COMPACT_MIN_ORIGINAL \o <<SEMI>>, cfg.ncompact)
    \o Flatten([i \in 1..Len(cfg.gates) |-> Gate(cfg.gates[i])])
    \o (IF cfg.fn = "nl" THEN <<NL>> ELSE <<>>)
    \o (IF cfg.fn \in {"none", "zi0"} THEN <<CODE>>
        ELSE <<FN("Yi0")>>)
    \o <<Tok("PARAMS_OBJ_M"), TokA("HOOK_M", "_Z"), RET,
         DIVFOOT_M(cfg.react, "WJ"), COMMA>>
    \o (IF cfg.plain THEN <<TokA("ID", cfg.comp)>>
        ELSE <<CE(cfg.react, cfg.comp), ARGS_M>>)
    \o <<Tok("TAIL_M")>>
    \o (IF cfg.fn = "zi0" THEN <<FN("Zi0"), Tok("PARAMS_M"), CODE, RB>> ELSE <<>>)

\* a bundle in the prettified layout: one statement per line
PrettyBundle(cfg) ==
    (IF cfg.big THEN (IF cfg.trim THEN <<PAD>> ELSE <<PAD, NL>>) ELSE <<>>)
    \o <<CODE, NL>>
    \o (IF cfg.fn = "dup"
        THEN <<FN("Yi0"), Tok("PARAMS_OBJ_P"), NL, IND4, CODE, NL, RB, NL>>
        ELSE <<>>)
    \o <<TokA("UD_P_HEAD", cfg.ctor), NL, Tok("UD_P_TAIL"), NL>>
    \o (IF cfg.upd THEN UPDATE_USAGE_ORIGINAL \o <<NL>> ELSE <<>>)
    \o (IF cfg.res THEN RESULT_HANDLER_ORIGINAL \o <<NL>> ELSE <<>>)
    \o Repeat(<<IND4, CODE>> \o COMPACT_ORIGINAL \o <<SEMI, NL>>, cfg.ncompact)
    \o Flatten([i \in 1..Len(cfg.gates) |-> <<IND4>> \o Gate(cfg.gates[i]) \o <<NL>>])
    \o (IF cfg.fn = "nl" THEN <<NL>> ELSE <<>>)
    \o (IF cfg.fn \in {"none", "zi0"} THEN <<CODE>>
        ELSE <<FN("Yi0")>>)
    \o <<Tok("PARAMS_OBJ_P"), NL, TokA("HOOK_P", "_Z"), NL,
         TokA("RETCE_P", cfg.react), NL, Tok("DIVSTR_P"), NL,
         IND4, FOOTLINE_P("WJ")>>
    \o (IF cfg.same THEN <<SP>> ELSE <<NL, IND4>>)
    \o (IF cfg.plain THEN <<TokA("ID", cfg.comp)>>
        ELSE <<CE(cfg.react, cfg.comp), MBARGS>>)
    \o <<COMMA, NL, Tok("CLOSE_P"), NL, RB, NL>>
    \o (IF cfg.fn = "zi0"
        THEN <<FN("Zi0"), Tok("PARAMS_OBJ_P"), NL, IND4, CODE, NL, RB, NL>>
        ELSE <<>>)

Bundle(cfg) == IF cfg.style = "P" THEN PrettyBundle(cfg) ELSE MinBundle(cfg)

\* the stock bundle of a layout: every site present once, stock identifiers
Stock(style) ==
    [style |-> style, big |-> (style = "P"),
     ctor |-> IF style = "P" THEN "g1" ELSE "p7",
     upd |-> TRUE, res |-> TRUE, ncompact |-> 1,
     gates |-> IF style = "P" THEN <<1>> ELSE <<3>>,
     fn |-> "std", react |-> "n4", comp |-> "dP1", same |-> FALSE,
     trim |-> FALSE, plain |-> FALSE]

Styles == {"P", "M"}

\* sequences over 1..3 of length at most n
RECURSIVE GateSeqs(_)
GateSeqs(n) ==
    IF n = 0 THEN {<<>>}
    ELSE LET S == GateSeqs(n - 1)
         IN S \cup {Append(g, x) : g \in {t \in S : Len(t) = n - 1}, x \in 1..3}

\* bundles that differ from stock in the token-accounting sites
AccountingCfgs ==
    UNION {{[Stock(st) EXCEPT !.ctor = c, !.upd = u, !.res = r, !.ncompact = n] :
                c \in {Stock(st).ctor, "$7"}, u \in BOOLEAN, r \in BOOLEAN,
                n \in 0..MaxCompact} : st \in Styles}

\* bundles that differ from stock in the visibility gates
GateCfgs ==
    {[Stock(st) EXCEPT !.gates = g] : st \in Styles, g \in GateSeqs(MaxGates)}

\* bundles that differ from stock in the footer region or in their length
FooterCfgs ==
    {[Stock(st) EXCEPT !.big = b, !.fn = f] :
        st \in Styles, b \in BOOLEAN, f \in {"std", "none", "zi0", "dup", "nl"}}
    \cup UNION {{[Stock(st) EXCEPT !.big = b, !.react = r, !.comp = c, !.same = sm] :
                    b \in BOOLEAN, r \in {"n4", "o4"}, c \in {"dP1", "iP1"},
                    sm \in {FALSE, st = "P"}} : st \in Styles}

\* bundles in the minified layout whose line count lies at the threshold of
\* is_prettified: 5000 and 5001 lines without the line break of "nl", one
\* more with it
LengthCfgs ==
    {[Stock("M") EXCEPT !.big = TRUE, !.trim = tr, !.fn = f] :
        tr \in BOOLEAN, f \in {"std", "nl"}}

\* bundles whose footer container has a plain expression as its first child,
\* not a createElement call: "kids", or an expression named like the default
\* of detect_footer_component
ChildCfgs ==
    UNION {{[Stock(st) EXCEPT !.plain = TRUE, !.comp = c, !.same = sm] :
               c \in {"kids", "dP1"}, sm \in {FALSE, st = "P"}} : st \in Styles}

Cfgs == AccountingCfgs \cup GateCfgs \cup FooterCfgs \cup LengthCfgs \cup ChildCfgs

\* the stylesheets the runs start from
Stylesheets ==
    { <<Tok("CSS_BASE")>>,
      <<Tok("CSS_BASE"), Tok("CSS_ST")>>,
      <<Tok("CSS_BASE"), Tok("CSS_USER")>> }

(***************************************************************************)
(* State: the two artifacts, the two backup slots, and the record of the   *)
(* runs made so far (what each run read, wrote, printed and exited with).  *)
(***************************************************************************)
VARIABLES js, css, bak, log
vars == <<js, css, bak, log>>

NoCssRep == [custom |-> NotRun, st |-> NotRun]

\* the record of a run that is not "apply"
Run(mode, js1, css1, jsw, cssw, ok3, exit) ==
    [mode |-> mode, js0 |-> js, css0 |-> css, js1 |-> js1, css1 |-> css1,
     ok1 |-> "none", ok2 |-> "none", ok3 |-> ok3, exit |-> exit,
     jsWritten |-> jsw, cssWritten |-> cssw,
     rep |-> NoJsRep, cssrep |-> NoCssRep,
     prettified |-> is_prettified(js), pre_er0 |-> <<>>, post_er0 |-> <<>>]

Bool(b) == IF b THEN "true" ELSE "false"

\* The stylesheet varies with the stock bundles only: patch_css, verify and
\* the stylesheet half of clean treat index.css without reading index.js.
Init ==
    /\ \E cfg \in Cfgs :
          /\ js = Bundle(cfg)
          /\ css \in IF cfg \in {Stock(st) : st \in Styles}
                     THEN Stylesheets
                     ELSE {<<Tok("CSS_BASE")>>}
    /\ bak = [has |-> FALSE, js |-> <<>>, css |-> <<>>]
    /\ log = <<>>

\* the exit status as it would be if the result of verify() were dropped
apply_exit_without_verify(ok1, ok2, ok3) == IF ok1 /\ ok2 THEN 0 ELSE 1

\* sys.exit(0 if success else 1) of the apply mode
apply_exit(ok1, ok2, ok3) == IF ok1 /\ ok2 /\ ok3 THEN 0 ELSE 1

\* main(), mode "apply", after patch_js returned r1 and patch_css r2: verify,
\* then the exit status.  An uncaught exception of patch_js ends the process
\* with status 1 at once.
apply_record(jsfile, cssfile, r1, r2) ==
    LET crashed == r1.ret = "exc"
        js1 == IF r1.written THEN r1.content ELSE jsfile
        css1 == IF ~crashed /\ r2.written THEN r2.content ELSE cssfile
        ok3 == verify(js1, css1)
    IN [mode |-> "apply", js0 |-> jsfile, css0 |-> cssfile,
        js1 |-> js1, css1 |-> css1,
        ok1 |-> r1.ret,
        ok2 |-> IF crashed THEN "none" ELSE r2.ret,
        ok3 |-> IF crashed THEN "none" ELSE Bool(ok3),
        exit |-> IF crashed THEN 1
                 ELSE apply_exit(r1.ret = "true", r2.ret = "true", ok3),
        jsWritten |-> r1.written,
        cssWritten |-> ~crashed /\ r2.written,
        rep |-> r1.rep,
        cssrep |-> IF crashed THEN NoCssRep ELSE r2.rep,
        prettified |-> r1.prettified,
        pre_er0 |-> r1.pre_er0,
        post_er0 |-> IF r1.ret = "true" THEN r1.content ELSE <<>>]

\* main(), mode "apply", on the two artifacts
apply_run(jsfile, cssfile) ==
    apply_record(jsfile, cssfile, patch_js(jsfile), patch_css(cssfile))

\* Each mode of main() as a step that is taken while fewer than n runs are
\* recorded.
ApplyWithin(n) ==
    /\ Len(log) < n
    /\ log' = Append(log, apply_run(js, css))
    /\ js' = log'[Len(log')].js1
    /\ css' = log'[Len(log')].css1
    /\ UNCHANGED bak

\* main(), mode "backup": copy both artifacts to the backup slots
BackupWithin(n) ==
    /\ Len(log) < n
    /\ bak' = [has |-> TRUE, js |-> js, css |-> css]
    /\ log' = Append(log, Run("backup", js, css, FALSE, FALSE, "none", 0))
    /\ UNCHANGED <<js, css>>

\* restore() on index.js: the backup when it exists, else a warning
restore_js(current, backup) == IF backup.has THEN backup.js ELSE current

\* restore() on index.css as it would be if it copied the other backup file
restore_css_from_js(current, backup) ==
    IF backup.has THEN backup.js ELSE current

\* restore() on index.css: the backup when it exists, else a warning
restore_css(current, backup) == IF backup.has THEN backup.css ELSE current

\* restore(): copy the backup slots back when they exist
RestoreWithin(n) ==
    /\ Len(log) < n
    /\ js' = restore_js(js, bak)
    /\ css' = restore_css(css, bak)
    /\ log' = Append(log, Run("restore", js', css', bak.has, bak.has, "none", 0))
    /\ UNCHANGED bak

\* clean(): both artifacts are rewritten
CleanWithin(n) ==
    /\ Len(log) < n
    /\ js' = clean_js(js)
    /\ css' = clean_css(css)
    /\ log' = Append(log, Run("clean", js', css', TRUE, TRUE, "none", 0))
    /\ UNCHANGED bak

\* main(), mode "verify": verify() is called and its result is dropped
VerifyWithin(n) ==
    /\ Len(log) < n
    /\ log' = Append(log, Run("verify", js, css, FALSE, FALSE,
                                Bool(verify(js, css)), 0))
    /\ UNCHANGED <<js, css, bak>>

Apply == ApplyWithin(MaxSteps)
Backup == BackupWithin(MaxSteps)
Restore == RestoreWithin(MaxSteps)
Clean == CleanWithin(MaxSteps)
Verify == VerifyWithin(MaxSteps)

Next == Apply \/ Backup \/ Restore \/ Clean \/ Verify

Spec == Init /\ [][Next]_vars

\* Longer behaviours from the stock bundles: the backup slots only matter once
\* a backup is followed by other runs and then by a restore.
MaxLongSteps == 4

InitStock ==
    /\ js \in {Bundle(Stock(st)) : st \in Styles}
    /\ css \in Stylesheets
    /\ bak = [has |-> FALSE, js |-> <<>>, css |-> <<>>]
    /\ log = <<>>

LongApply == ApplyWithin(MaxLongSteps)
LongBackup == BackupWithin(MaxLongSteps)
LongRestore == RestoreWithin(MaxLongSteps)
LongClean == CleanWithin(MaxLongSteps)
LongVerify == VerifyWithin(MaxLongSteps)

NextLong == LongApply \/ LongBackup \/ LongRestore \/ LongClean \/ LongVerify

SpecLong == InitStock /\ [][NextLong]_vars

(***************************************************************************)
(* Properties of the runs                                                  *)
(***************************************************************************)
\* the runs of a mode recorded so far
RunsOf(mode) == {i \in 1..Len(log) : log[i].mode = mode}

\* the runs of mode m2 made directly after a run of mode m1
Pairs(m1, m2) ==
    {i \in 2..Len(log) : log[i - 1].mode = m1 /\ log[i].mode = m2}

\* how often the literal p occurs in s
Occurrences(s, p) == Cardinality({i \in 1..Len(s) : IsAt(s, i, p)})

\* C1: apply is idempotent on the code artifact: when a patch_js run returned
\* True, the patch_js run made directly after it on the resulting text leaves
\* the text as it was, whatever the encoding and however often the original
\* pattern of a transform occurs.
C1_SecondApplyKeepsText ==
    \A i \in Pairs("apply", "apply") :
        log[i - 1].ok1 = "true" => log[i].js1 = log[i - 1].js1

\* C2: round trip: when apply succeeds on an original code artifact, the
\* clean run made directly after it yields the original text, with no blank
\* line, whitespace-only line or split line left behind.
C2_ApplyThenCleanIsOriginal ==
    (Len(log) >= 2 /\ log[1].mode = "apply" /\ log[1].exit = 0
        /\ log[2].mode = "clean")
    => log[2].js1 = log[1].js0

\* C3: hard failure: when detect_footer_function finds no name and the text
\* does not define CC_MetricsBar yet, apply exits with a non-zero status and
\* the code artifact is not written, in both encodings.
C3_NoFooterFunctionFailsHard ==
    \A i \in RunsOf("apply") :
        (/\ detect_footer_function(log[i].js0,
                                   detect_css_module_var(log[i].js0)) = ""
         /\ ~HasMetricsBarDef(log[i].js0))
        => (log[i].exit # 0 /\ ~log[i].jsWritten /\ log[i].js1 = log[i].js0)

\* the lines of a transform that start with "OK:"
Applied == {"OK_P", "OK_M", "OK_SPLIT", "OK1", "OK2", "OK3"}

\* C4: in an apply run made directly after a successful apply run (exit
\* status 0, each of the seven code transforms applied), each of the seven
\* transforms reports SKIP, in both encodings and for each spelling of the
\* visibility gate.
C4_SecondApplyAllSkip ==
    \A i \in Pairs("apply", "apply") :
        (log[i - 1].exit = 0
           /\ \A f \in DOMAIN log[i - 1].rep : log[i - 1].rep[f] \in Applied)
        => \A f \in DOMAIN log[i].rep : log[i].rep[f] = "SKIP"

\* C5: clean restores the visibility gate in the spelling that apply removed:
\* after apply removed a gate from an original artifact and clean ran, each
\* of the three spellings occurs as often as in the original.
C5_CleanRestoresGateSpelling ==
    (Len(log) >= 2 /\ log[1].mode = "apply" /\ log[2].mode = "clean"
        /\ log[1].rep.er0 \in {"OK1", "OK2", "OK3"})
    => \A g \in 1..Len(er0_patterns) :
          Occurrences(log[2].js1, Gate(g)) = Occurrences(log[1].js0, Gate(g))

\* C6: in apply mode the exit status is non-zero whenever verify() is false
\* or a patch step failed, and zero only when patch_js, patch_css and verify
\* all returned True.
C6_ApplyExitStatus ==
    \A i \in RunsOf("apply") :
        /\ log[i].exit \in {0, 1}
        /\ log[i].exit = 0 <=>
              /\ log[i].ok1 = "true"
              /\ log[i].ok2 = "true"
              /\ log[i].ok3 = "true"
              /\ verify(log[i].js1, log[i].css1)

\* an apply run whose two patch steps returned True and whose verification
\* failed
C6_Witness ==
    \E i \in RunsOf("apply") :
        /\ log[i].ok1 = "true"
        /\ log[i].ok2 = "true"
        /\ log[i].ok3 = "false"
        /\ log[i].exit = 1

\* C7: in verify mode the exit status matches the outcome of the checklist:
\* zero exactly when every predicate passes.
C7_VerifyExitStatus ==
    \A i \in RunsOf("verify") : (log[i].exit = 0) <=> (log[i].ok3 = "true")

\* the minified text holds usageData=F({totalTokens:0,...}) at p
UsageDataMinAt(s, p, F) == IsAt(s, p, <<TokA("UD_M_HEAD", F), RB, RP>>)

\* C8: for minified text with usageData=F({totalTokens:0,...}) and no
\* inputTokens field, F any identifier of _JS_ID, apply adds the four zero
\* fields to that call, keeps F and reports "patched (minified)"; the apply
\* run directly after it reports SKIP for the transform.
C8_MinifiedUsageDataAnyName ==
    /\ \A i \in RunsOf("apply") :
          \A F \in AlnumNames \cup OtherNames :
             (/\ log[i].ok1 = "true"
              /\ ~log[i].prettified
              /\ \E p \in 1..Len(log[i].js0) : UsageDataMinAt(log[i].js0, p, F)
              /\ ~In(USAGE_DATA_ORIGINAL, log[i].js0)
              /\ ~HasInputTokensMin(log[i].js0)
              /\ ~HasInputTokensPretty(log[i].js0))
             => /\ log[i].rep.ud = "OK_M"
                /\ In(<<TokA("UD_M_HEAD", F), M_FIELDS, RB, RP>>, log[i].js1)
    /\ \A i \in Pairs("apply", "apply") :
          log[i - 1].rep.ud = "OK_M" => log[i].rep.ud = "SKIP"

\* C9: the stylesheet apply is append-only and idempotent: on a stylesheet
\* without ".sessionMetrics_cc", patch_css appends one block with that
\* selector and keeps the original text as a prefix; a second patch_css
\* appends nothing, reports SKIP for both blocks and does not write.
C9_StylesheetAppendOnly ==
    /\ \A i \in RunsOf("apply") :
          (log[i].ok1 # "exc" /\ ~HasSessionMetricsCss(log[i].css0))
          => /\ log[i].cssWritten
             /\ Len(log[i].css1) > Len(log[i].css0)
             /\ SubSeq(log[i].css1, 1, Len(log[i].css0)) = log[i].css0
             /\ Cardinality({j \in 1..Len(log[i].css1) :
                                HasSessionMetricsCss(<<log[i].css1[j]>>)}) = 1
             /\ patch_css(log[i].css1) =
                   [ret |-> "true", written |-> FALSE, content |-> log[i].css1,
                    rep |-> [custom |-> "SKIP", st |-> "SKIP"]]
    /\ \A i \in Pairs("apply", "apply") :
          (log[i - 1].ok1 # "exc" /\ log[i].ok1 # "exc")
          => /\ ~log[i].cssWritten
             /\ log[i].css1 = log[i - 1].css1
             /\ log[i].cssrep = [custom |-> "SKIP", st |-> "SKIP"]

\* two apply runs in a row on a stylesheet that had no ".sessionMetrics_cc"
C9_Witness ==
    \E i \in Pairs("apply", "apply") :
        /\ ~HasSessionMetricsCss(log[i - 1].css0)
        /\ log[i - 1].cssWritten
        /\ log[i].ok1 # "exc"
        /\ log[i].cssrep.custom = "SKIP"

\* C10: visibility-gate removal: when the text holds a gate in one of the
\* three spellings, the gate transform replaces one occurrence, the first one
\* of the first spelling of the pattern list that is found, with the inert
\* marker, and leaves the rest of the text unchanged.
C10_GateRemovalOneSite ==
    \A i \in RunsOf("apply") :
        LET pre == log[i].pre_er0
            post == log[i].post_er0
            G == {g \in 1..Len(er0_patterns) : Occurrences(pre, Gate(g)) > 0}
        IN (log[i].ok1 = "true" /\ G # {})
           => \E g \in G, p \in 1..Len(pre) :
                 LET old == er0_patterns[g].old
                     new == er0_patterns[g].new
                 IN /\ \A h \in G : g <= h
                    /\ IsAt(pre, p, old)
                    /\ \A q \in 1..(p - 1) : ~IsAt(pre, q, old)
                    /\ new[1] \in {MARK_SHOW, MARK_ER0}
                    /\ post = SubSeq(pre, 1, p - 1) \o new
                                 \o SubSeq(pre, p + Len(old), Len(pre))
                    /\ Occurrences(post, old) = Occurrences(pre, old) - 1
                    /\ \A h \in G \ {g} :
                          Occurrences(post, Gate(h)) = Occurrences(pre, Gate(h))

\* an apply run on a text with two gates of one spelling
C10_Witness ==
    \E i \in RunsOf("apply") :
        /\ log[i].ok1 = "true"
        /\ \E g \in 1..Len(er0_patterns) :
              /\ Occurrences(log[i].pre_er0, Gate(g)) = 2
              /\ Occurrences(log[i].post_er0, Gate(g)) = 1

\* the kinds of the fragments that only the engine puts into index.js
EngineKinds ==
    {"VAR_SESSION", "VAR_ACCENT", "VAR_DIM", "FN_CCV", "CCP_OPEN", "CCP_CLOSE",
     "FN_CCICON", "FN_CCBAR", "VAR_DUSTIN", "FN_CCAVATAR", "FN_MB",
     "M_FIELDS", "UD_P_FIELDS", "UU_M_FIELDS", "UU_P_FIELDS", "RH_M_FIELDS",
     "RH_P_FIELDS", "CB_P_FIELDS", "MARK_SHOW", "MARK_ER0"}

\* no fragment of the engine is left in the two texts
MarkerFree(jstext, csstext) ==
    /\ \A j \in 1..Len(jstext) :
          /\ jstext[j].k \notin EngineKinds
          /\ ~Mentions("CC_MetricsBar", <<jstext[j]>>)
    /\ \A j \in 1..Len(csstext) : csstext[j].k \notin {"CSS_CUSTOM", "CSS_ST"}

\* the checklist entry that tests absence (of the visibility gate)
AbsenceCheck == "JS: er0 patched"

\* the patched text holds a marker left by the removal of a gate
HasGateMarker(s) == In(<<MARK_SHOW>>, s) \/ In(<<MARK_ER0, RB>>, s)

LastBackup(i) ==
    LET B == {b \in 1..(i - 1) : log[b].mode = "backup"}
    IN IF B = {} THEN 0 ELSE Max(B)

Warners == <<"ud", "uu", "rh", "cb", "er0">>

\* the text a warner looks at holds none of its original patterns.  The token
\* transforms are judged on the text read from the file (no earlier transform
\* touches their sites), the gate on the text PATCH 2 receives.
PatternAbsent(r) ==
    [ud |-> /\ ~In(USAGE_DATA_ORIGINAL, r.js0)
            /\ ~\E p \in 1..Len(r.js0) : USAGE_DATA_MIN_PATTERN(r.js0, p),
     uu |-> /\ ~In(UPDATE_USAGE_ORIGINAL, r.js0)
            /\ ~In(UPDATE_USAGE_MIN_ORIGINAL, r.js0),
     rh |-> /\ ~In(RESULT_HANDLER_ORIGINAL, r.js0)
            /\ ~In(RESULT_HANDLER_MIN_ORIGINAL, r.js0),
     cb |-> ~In(COMPACT_ORIGINAL, r.js0) /\ ~In(COMPACT_MIN_ORIGINAL, r.js0),
     er0 |-> \A g \in 1..Len(er0_patterns) : ~In(Gate(g), r.pre_er0)]

\* the "already applied" test of each warner, as patch_js evaluates it
AlreadyApplied(r) ==
    [ud |-> HasInputTokensMin(r.js0) \/ HasInputTokensPretty(r.js0),
     uu |-> HasUpdateTokens(r.js0),
     rh |-> HasResultTokens(r.js0),
     cb |-> In(COMPACT_PATCHED, r.js0) \/ In(COMPACT_MIN_PATCHED, r.js0),
     er0 |-> In(<<MARK_SHOW>>, r.pre_er0)]

\* the edit a transform reported as applied is in the text
EditPresent(r, f, text) ==
    CASE f = "ud" -> HasInputTokensMin(text) \/ HasInputTokensPretty(text)
      [] f = "uu" -> HasUpdateTokens(text)
      [] f = "rh" -> HasResultTokens(text)
      [] f = "cb" -> In(COMPACT_PATCHED, text) \/ In(COMPACT_MIN_PATCHED, text)
      [] f = "def" -> HasMetricsBarDef(text)
      [] f = "call" -> HasMetricsBarCall(text)
      [] f = "er0" -> HasGateMarker(text)

\* PATCH 1a or PATCH 1b ended the run (return False, or the ValueError)
HardFailure(r) == r.rep.def = "ERROR" \/ r.rep.call \in {"ERROR", "EXC"}

LineCount(content) == CountNewlines(content) + 1

\* C14: format classification at the boundary: is_prettified is true exactly
\* when the text has more than 5000 newline-delimited lines; a text of
\* exactly 5000 lines is minified and one of 5001 lines prettified, and the
\* format is the same each time it is computed for the same text.
C14_PrettifiedAboveThreshold ==
    \A i \in 1..Len(log) :
        LET n == LineCount(log[i].js0)
        IN /\ log[i].prettified \in BOOLEAN
           /\ log[i].prettified <=> n > LineThreshold
           /\ n = LineThreshold => ~log[i].prettified
           /\ n = LineThreshold + 1 => log[i].prettified
           /\ log[i].prettified = is_prettified(log[i].js0)
           /\ \A j \in 1..Len(log) :
                 log[j].js0 = log[i].js0 => log[j].prettified = log[i].prettified

\* an apply run on a text of exactly 5000 lines, patched as minified text
C14_Witness ==
    \E i \in RunsOf("apply") :
        /\ LineCount(log[i].js0) = LineThreshold
        /\ ~log[i].prettified
        /\ log[i].rep.def = "OK_M"

\* the kinds of the two blocks that patch_css appends; each starts with the
\* line break and the marker comment that clean looks for
CssMarkers == {"CSS_CUSTOM", "CSS_ST"}

\* the part of a stylesheet that precedes its first appended-block marker
BeforeFirstMarker(text) ==
    LET I == {j \in 1..Len(text) : text[j].k \in CssMarkers}
    IN IF I = {} THEN text ELSE SubSeq(text, 1, Min(I) - 1)

\* C15: stylesheet clean truncates at the earliest appended-block marker: the
\* cleaned stylesheet is the prefix of the input that precedes the first
\* occurrence of either marker comment, so patch_css followed by clean gives
\* back a marker-free original stylesheet unchanged.
C15_StylesheetCleanTruncates ==
    /\ \A i \in RunsOf("clean") :
          /\ log[i].css1 = BeforeFirstMarker(log[i].css0)
          /\ \A j \in 1..Len(log[i].css1) : log[i].css1[j].k \notin CssMarkers
    /\ \A i \in Pairs("apply", "clean") :
          (/\ log[i - 1].ok1 # "exc"
           /\ \A j \in 1..Len(log[i - 1].css0) :
                 log[i - 1].css0[j].k \notin CssMarkers)
          => log[i].css1 = log[i - 1].css0

\* patch_css appended both blocks to a marker-free stylesheet and the clean
\* run after it cut them off again
C15_Witness ==
    \E i \in Pairs("apply", "clean") :
        /\ \A j \in 1..Len(log[i - 1].css0) : log[i - 1].css0[j].k \notin CssMarkers
        /\ log[i - 1].cssrep = [custom |-> "OK", st |-> "OK"]
        /\ log[i - 1].cssWritten
        /\ Len(log[i].css0) = Len(log[i - 1].css0) + 2
        /\ log[i].css1 = log[i - 1].css0

\* one code transform on a text: whether its "already applied" test holds
\* before it, what it prints, and the text before and after it
Step(was, p, pre) == [was |-> was, r |-> p.r, pre |-> pre, post |-> p.c]

\* the seven code transforms, each on the text an apply run read (the gate
\* transform on the text PATCH 2 received), with the "already applied" test of
\* patch_js evaluated on the result
TransformSteps(r) ==
    LET s == r.js0
        d == patch_js_start(s)
    IN << Step(AlreadyApplied(r).ud, patch_usage_data(s), s),
          Step(AlreadyApplied(r).uu, patch_update_usage(s), s),
          Step(AlreadyApplied(r).rh, patch_result_handler(s), s),
          Step(AlreadyApplied(r).cb, patch_compact_boundary(s), s),
          Step(HasMetricsBarDef(s),
               patch_component_def(s, d.prettified, d.css_var, d.react_var,
                                   d.signal_hook), s),
          Step(HasMetricsBarCall(s),
               patch_component_call(s, d.prettified, d.css_var, d.react_var,
                                    d.footer_comp), s),
          Step(AlreadyApplied(r).er0, patch_er0(r.pre_er0), r.pre_er0) >>

\* the "already applied" test of the k-th transform on a text
AppliedTest(k, text) ==
    CASE k = 1 -> HasInputTokensMin(text) \/ HasInputTokensPretty(text)
      [] k = 2 -> HasUpdateTokens(text)
      [] k = 3 -> HasResultTokens(text)
      [] k = 4 -> In(COMPACT_PATCHED, text) \/ In(COMPACT_MIN_PATCHED, text)
      [] k = 5 -> HasMetricsBarDef(text)
      [] k = 6 -> HasMetricsBarCall(text)
      [] k = 7 -> In(<<MARK_SHOW>>, text)

\* C16: per-transform predicate invariant: for each code transform, (i) when
\* its "already applied" test is true on the text the transform leaves the
\* text unchanged, and (ii) when it applies to unpatched text its "already
\* applied" test is true on the result; for every transform and variant,
\* the compact-boundary reset and each spelling of the gate included.
C16_PredicateInvariant ==
    \A i \in RunsOf("apply") :
        \A k \in 1..7 :
            LET t == TransformSteps(log[i])[k]
            IN /\ t.was => t.post = t.pre
               /\ (~t.was /\ t.r \in Applied) => AppliedTest(k, t.post)

\* the four zero fields stand inside the usageData constructor call
UsageDataFieldsAtSite(s) ==
    \/ \E p \in 1..(Len(s) - 1) : s[p].k = "UD_M_HEAD" /\ s[p + 1] = M_FIELDS
    \/ \E p \in 1..(Len(s) - 2) :
          s[p].k = "UD_P_HEAD" /\ s[p + 1] = NL /\ s[p + 2] = Tok("UD_P_FIELDS")

\* each token-accounting edit is present at its own site
EditAtSite(s) ==
    [ud |-> UsageDataFieldsAtSite(s),
     uu |-> In(UPDATE_USAGE_PATCHED, s) \/ In(UPDATE_USAGE_MIN_PATCHED, s),
     rh |-> In(RESULT_HANDLER_PATCHED, s) \/ In(RESULT_HANDLER_MIN_PATCHED, s),
     cb |-> In(COMPACT_PATCHED, s) \/ In(COMPACT_MIN_PATCHED, s)]

\* the checklist entry of each token-accounting edit
TokenCheck ==
    [ud |-> "JS: usageData has inputTokens",
     uu |-> "JS: updateUsage stores individual tokens",
     rh |-> "JS: result handler preserves tokens",
     cb |-> "JS: compact_boundary resets tokens"]

\* the outcome of the checklist entry with the given name
CheckOk(c, name) == \E n \in 1..Len(c) : c[n].name = name /\ c[n].ok

\* C17: the verifier catches a transform that did not take effect: when
\* verify returns True, each of the four token-accounting edits is present at
\* its own site; when a token-accounting transform ended with a WARNING and
\* its fields are missing at its site, its checklist predicate is false and
\* apply exits with a non-zero status.
C17_VerifierCatchesMissingEdit ==
    \A i \in RunsOf("apply") :
        \A f \in DOMAIN TokenCheck :
            /\ log[i].ok3 = "true" => EditAtSite(log[i].js1)[f]
            /\ (log[i].ok1 = "true" /\ log[i].rep[f] = "WARN"
                   /\ ~EditAtSite(log[i].js1)[f])
               => /\ ~CheckOk(checks(log[i].js1, log[i].css1), TokenCheck[f])
                  /\ log[i].exit # 0

\* the transforms of patch_js in the order of the source
Transforms == <<"ud", "uu", "rh", "cb", "def", "call", "er0">>

\* C18: single write after full reconstruction: patch_js writes index.js only
\* after all seven transforms have been attempted, and then writes the text
\* that the seven transforms built; on every path on which it returns False
\* (no footer function, anchor absent, no call injection point) or raises, it
\* leaves before the write, so the file is unchanged and no edit made in
\* memory during the run is persisted.
C18_SingleWriteAfterAllTransforms ==
    \A i \in RunsOf("apply") :
        LET r == log[i]
        IN /\ r.jsWritten <=> r.ok1 = "true"
           /\ r.jsWritten
              => /\ \A n \in 1..Len(Transforms) : r.rep[Transforms[n]] # NotRun
                 /\ r.js1 = r.post_er0
           /\ r.ok1 \in {"false", "exc"}
              => /\ HardFailure(r)
                 /\ r.js1 = r.js0
                 /\ r.rep.er0 = NotRun
                 /\ js = r.js0 \/ i < Len(log)

\* an apply run that edited the text in memory (a token transform applied),
\* then returned False and left the file as it was
C18_Witness ==
    \E i \in RunsOf("apply") :
        /\ log[i].ok1 = "false"
        /\ log[i].rep.ud \in Applied
        /\ log[i].rep.cb \in Applied
        /\ ~log[i].jsWritten
        /\ log[i].js1 = log[i].js0

\* the index of the definition of the function that encloses the first
\* inputFooter reference: the last "function NAME(" before the reference, as
\* detect_footer_function finds it; 0 when there is none in the window
EnclosingFunction(s, css_var) ==
    LET pos == footer_pos(s, css_var)
    IN LastIdx({i \in search_start(s, pos)..(pos - 1) : FnName(s[i]) # ""})

\* the index at which the line that holds index e starts
LineStart(s, e) ==
    LastIdx({q \in 1..(e - 1) : Newlines(s[q]) > 0}) + 1

\* the text c is the text s with the block put directly in front of the
\* function at index e: in front of its line in the prettified layout, in
\* front of "function NAME(" in the minified layout
InjectedBefore(s, c, e, block, prettified) ==
    LET q == IF prettified THEN LineStart(s, e) ELSE e
    IN c = SubSeq(s, 1, q - 1) \o block \o <<NL>> \o SubSeq(s, q, Len(s))

\* C19: the component definition is injected immediately before the function
\* that renders the footer container: in both encodings, when the definition
\* transform applies, the injected block ends directly in front of the
\* definition of the function that encloses the first inputFooter reference,
\* and not in front of another place where "function NAME(" occurs.
C19_DefinitionBeforeEnclosingFunction ==
    \A i \in RunsOf("apply") :
        LET s == log[i].js0
            d == patch_js_start(s)
            p == patch_component_def(s, d.prettified, d.css_var, d.react_var,
                                     d.signal_hook)
            e == EnclosingFunction(s, d.css_var)
        IN (p.r \in Applied /\ e # 0)
           => InjectedBefore(s, p.c, e, metrics_def(d.react_var, d.signal_hook),
                             d.prettified)

\* the injected call is the first child of the footer container
CallIsFirstChild(s, css_var) ==
    \E p \in 1..(Len(s) - 2) :
        /\ s[p].k = "DIVFOOT_M"
        /\ s[p].b = css_var
        /\ s[p + 1] = COMMA
        /\ s[p + 2].k = "CE"
        /\ s[p + 2].b = "CC_MetricsBar"

\* the names of the components created right after the injected call
NextChildren(s) ==
    {s[p + 3].b : p \in {q \in 1..(Len(s) - 3) : AfterMetricsBarCall(s, q)}}

\* C20: anchor detection is aware of the injected call:
\* detect_footer_component never returns "CC_MetricsBar"; on patched text,
\* where the injected call is the first child of the footer container, it
\* returns the name of the next child component that was there before, or
\* its default "dP1" when no such child can be resolved.
C20_FooterComponentNeverInjected ==
    \A i \in RunsOf("apply") :
        LET s == log[i].js0
            c == detect_css_module_var(s)
            comp == detect_footer_component(s, c)
        IN /\ comp # "CC_MetricsBar"
           /\ CallIsFirstChild(s, c)
              => IF NextChildren(s) # {} THEN comp \in NextChildren(s)
                 ELSE comp = "dP1"

\* C21: fallback safety without a crash: for every input text in either
\* encoding, the texts on which the anchor detectors fall back to their
\* defaults included, patch_js ends by returning True or False and never
\* with an uncaught exception.
C21_PatchJsNeverRaises ==
    \A i \in RunsOf("apply") : log[i].ok1 \in {"true", "false"}

\* the report lines of the substitutions written in the prettified spelling
\* and of those written in the minified spelling
PrettyVariants == {"OK_P", "OK_SPLIT", "OK1"}
MinVariants == {"OK_M", "OK2", "OK3"}

\* C22: one Encoding per run: the Encoding is computed once at the start of
\* patch_js, and every transform that applies uses the variant of that
\* Encoding: a prettified-variant substitution happens only in a run
\* classified prettified, a minified-variant substitution only in a run
\* classified minified.
C22_OneEncodingPerRun ==
    \A i \in RunsOf("apply") :
        /\ log[i].prettified = is_prettified(log[i].js0)
        /\ \A n \in 1..Len(Transforms) :
              LET rep == log[i].rep[Transforms[n]]
              IN /\ rep \in PrettyVariants => log[i].prettified
                 /\ rep \in MinVariants => ~log[i].prettified

\* C23: the enclosing-function anchor has no fallback name: when
\* detect_footer_function finds no function definition (None, or a name that
\* no "function NAME(" line defines) and the component is not defined yet,
\* patch_js substitutes no hard-coded function name, injects nothing and
\* returns False, in the prettified branch as in the minified one.
C23_NoFallbackFunctionName ==
    \A i \in RunsOf("apply") :
        LET s == log[i].js0
            fn == detect_footer_function(s, detect_css_module_var(s))
        IN ((fn = "" \/ LineOfFunction(Split(s), fn) = -1)
               /\ ~HasMetricsBarDef(s))
           => /\ log[i].rep.def = "ERROR"
              /\ log[i].ok1 = "false"
              /\ ~HasMetricsBarDef(log[i].js1)

\* C24: apply preserves the Encoding classification of index.js: a text
\* classified minified before a successful apply is classified minified
\* after it, so that the next clean or apply takes the minified branch, and a
\* text classified prettified stays prettified after apply and after clean.
C24_ApplyPreservesEncoding ==
    /\ \A i \in RunsOf("apply") :
          log[i].ok1 = "true"
          => is_prettified(log[i].js1) = is_prettified(log[i].js0)
    /\ \A i \in RunsOf("clean") :
          is_prettified(log[i].js0) => is_prettified(log[i].js1)
    /\ \A i \in 2..Len(log) :
          (log[i - 1].mode = "apply" /\ log[i - 1].ok1 = "true")
          => log[i].prettified = log[i - 1].prettified

\* C25: the apply pipeline runs patch_js, then patch_css, then verify, in that
\* order and each once, whatever the outcome of the earlier steps: when
\* patch_js fails without writing index.js the stylesheet is still patched
\* and written in the same run, and verify judges the two artifacts as the
\* two patch steps left them and writes neither.
C25_ApplyRunsAllThreeSteps ==
    \A i \in RunsOf("apply") :
        LET r == log[i]
            p2 == patch_css(r.css0)
        IN /\ r.ok1 # "none" /\ r.ok2 # "none" /\ r.ok3 # "none"
           /\ r.cssrep = p2.rep
           /\ r.cssWritten = p2.written
           /\ r.css1 = p2.content
           /\ ~r.jsWritten => r.js1 = r.js0
           /\ r.ok3 = Bool(verify(r.js1, r.css1))
           /\ i = Len(log) => (js = r.js1 /\ css = r.css1)

====
